---- MODULE Spec2Model ----
(***************************************************************************)
(* Model of the hummingbot API client: the HummingbotClient lifecycle      *)
(* (init / close / router accessors / async with, client.py), the request  *)
(* gateway                                                                 *)
(* BaseRouter._get / _post / _delete (routers/base.py) running in          *)
(* concurrent asyncio tasks over one shared aiohttp ClientSession, and the *)
(* construction of query parameters and JSON bodies by the router methods. *)
(*                                                                         *)
(* The aiohttp calls the gateway makes are modelled by what they do:       *)
(*   ClientSession.get/post/delete  raise RuntimeError("Session is         *)
(*       closed") on a closed session before anything is sent;             *)
(*   ClientResponse.ok              is  status < 400;                      *)
(*   ClientResponse.raise_for_status raises ClientResponseError(status,    *)
(*       message = reason phrase) when not ok;                             *)
(*   ClientResponse.json            raises ContentTypeError (a             *)
(*       ClientResponseError) on a non-JSON content type, returns None on  *)
(*       a blank body, and otherwise json.loads the body.                  *)
(***************************************************************************)
EXTENDS Integers, Sequences, FiniteSets, TLC

VARIABLES
    session,    \* HummingbotClient._session: 0 is None, else a Session id
    slots,      \* the ten router slots _accounts .. _performance
    nextId,     \* number of Sessions constructed so far
    closed,     \* Sessions on which ClientSession.close() has run
    phase,      \* history: "new" (init never ran), "open", "closed"
    pc,         \* per task: where the coroutine is suspended
    held,       \* per task: the router reference the caller holds
    call,       \* per task: the gateway invocation in progress / last made
    served,     \* per task: the response the remote produced for its request
    response,   \* per task: the local `response` bound by `async with`
    outcome,    \* per task: value returned / exception raised to the caller
    scope,      \* per task: position relative to an `async with client` block
    built       \* request descriptor constructed by a router method

vars == <<session, slots, nextId, closed, phase, pc, held, call, served,
          response, outcome, scope, built>>

clientVars == <<session, slots, nextId, closed, phase>>
taskVars == <<pc, held, call, served, response, outcome, scope>>

(***************************************************************************)
(* Bounds                                                                  *)
(***************************************************************************)
MaxSessions == 2

\* optional arguments a caller of search_executors supplies at once
MaxSupplied == 2

Tasks == {"t1", "t2"}

RouterNames == {"accounts", "markets", "trading", "docker",
                "bot_orchestration", "controllers", "scripts", "databases",
                "backtesting", "performance"}

Methods == {"GET", "POST", "DELETE"}

Statuses == {200, 299, 304, 400, 500}

ContentTypes == {"application/json", "text/html"}

Bodies == {"{\"detail\": \"already exists\"}", "[1, 2]", "", "<html>"}

(***************************************************************************)
(* Values                                                                  *)
(***************************************************************************)
None == <<"None">>

NoRouter == [session |-> 0, base_url |-> ""]

NoResponse == [kind |-> "none", status |-> 0, ctype |-> "", body |-> ""]

NoCall == [method |-> "", session |-> 0, attempts |-> 0, released |-> FALSE,
           concurrent |-> FALSE, behind |-> 0, thrown |-> ""]

NoOutcome == [kind |-> "none", status |-> 0, message |-> None, value |-> None]

EmptyDict == [k \in {} |-> None]

\* an argument of _get/_post/_delete left as None, resp. given as a dict
NoDict == [sent |-> FALSE, d |-> EmptyDict]

Dict(d) == [sent |-> TRUE, d |-> d]

NoBuilt == [method |-> "", verb |-> "", path |-> "", args |-> EmptyDict,
            params |-> NoDict, json |-> NoDict, url |-> << >>]

Http(status, ctype, body) ==
    [kind |-> "http", status |-> status, ctype |-> ctype, body |-> body]

Failure(kind) == [kind |-> kind, status |-> 0, ctype |-> "", body |-> ""]

\* every answer of the remote, and every way the transport fails
AllResponses ==
    {Http(s, c, b) : s \in Statuses, c \in ContentTypes, b \in Bodies}
    \cup {Failure("ClientConnectionError"), Failure("TimeoutError")}

\* the answers drawn while the lifecycle of the client is explored
BriefResponses ==
    {Http(200, "application/json", "[1, 2]"),
     Http(400, "application/json", "{\"detail\": \"already exists\"}"),
     Failure("ClientConnectionError")}

\* the base URL given to the client, after rstrip('/')
BaseUrl == "http://localhost:8000"

\* a router constructed without the Session it is given
RouterDetached(s, url) == [session |-> 0, base_url |-> url]

\* BaseRouter.__init__: a router object is its two fields, a reference to
\* the Session it was constructed with and the base URL
Router(s, url) == [session |-> s, base_url |-> url]

(***************************************************************************)
(* json.loads on the bodies of the model                                   *)
(***************************************************************************)
Loads(text) ==
    CASE text = "{\"detail\": \"already exists\"}"
            -> <<"object", "detail", "already exists">>
      [] text = "[1, 2]" -> <<"array", "1", "2">>
      [] OTHER -> <<"JSONDecodeError">>

Parseable(text) == Loads(text) # <<"JSONDecodeError">>

\* str(error_detail)
Str(v) == <<"str">> \o v

\* the reason phrase aiohttp puts in ClientResponseError.message
Reason(status) ==
    CASE status = 400 -> <<"reason", "Bad Request">>
      [] status = 500 -> <<"reason", "Internal Server Error">>
      [] status = 304 -> <<"reason", "Not Modified">>
      [] OTHER -> <<"reason", "OK">>

\* aiohttp.ClientResponseError and its subclass ContentTypeError
RemoteStatusKinds == {"ClientResponseError", "ContentTypeError"}

\* aiohttp.ClientConnectionError and asyncio.TimeoutError
TransportKinds == {"ClientConnectionError", "TimeoutError"}

Returned(v) == [kind |-> "value", status |-> 0, message |-> None, value |-> v]

Raised(kind, status, message) ==
    [kind |-> kind, status |-> status, message |-> message, value |-> None]

\* response.ok
Ok(r) == r.status < 400

\* await response.json()
JsonEnvelope(r) ==
    IF r.ctype # "application/json"
    THEN Raised("ContentTypeError", r.status, <<"reason", "unexpected mimetype">>)
    ELSE IF r.body = "" THEN Returned(None)
    ELSE IF Parseable(r.body) THEN Returned(<<"data">> \o Loads(r.body))
    ELSE Raised("JSONDecodeError", 0, None)

Json(r) ==
    IF r.ctype # "application/json"
    THEN Raised("ContentTypeError", r.status, <<"reason", "unexpected mimetype">>)
    ELSE IF r.body = "" THEN Returned(None)
    ELSE IF Parseable(r.body) THEN Returned(Loads(r.body))
    ELSE Raised("JSONDecodeError", 0, None)

\* response.raise_for_status(); return await response.json()
RaiseForStatusThenJson(r) ==
    IF ~Ok(r) THEN Raised("ClientResponseError", r.status, Reason(r.status))
    ELSE Json(r)

\* a connection failure or timeout propagates out of `async with`
TransportOutcome(r) == Raised(r.kind, 0, None)

\* _post, lines 21-32: the error built from the body inside `try`
WrappedError(r) ==
    LET detail == Json(r)
    IN  IF detail.kind = "value"
        THEN Raised("ClientResponseError", r.status, Str(detail.value))
        ELSE detail

\* _post without the `except: pass`: what the try block raises reaches the
\* caller
PostErrorOutcomeWrapped(r) == WrappedError(r)

\* _post, lines 31-33: the bare `except: pass` discards whatever the try
\* block raised, then raise_for_status() raises
PostErrorOutcome(r) ==
    LET discarded == WrappedError(r)
    IN  RaiseForStatusThenJson(r)

\* _post, lines 23 and 31-33: an exception of kind e is thrown into the task
\* suspended in `await response.json()`; the bare `except: pass` catches it
\* (CancelledError included), then raise_for_status() raises
PostThrownOutcome(r, e) ==
    LET discarded == Raised(e, 0, None)
    IN  RaiseForStatusThenJson(r)

(***************************************************************************)
(* Client lifecycle                                                        *)
(***************************************************************************)
Init ==
    /\ session = 0
    /\ slots = [r \in RouterNames |-> NoRouter]
    /\ nextId = 0
    /\ closed = {}
    /\ phase = "new"
    /\ pc = [t \in Tasks |-> "idle"]
    /\ held = [t \in Tasks |-> NoRouter]
    /\ call = [t \in Tasks |-> NoCall]
    /\ served = [t \in Tasks |-> NoResponse]
    /\ response = [t \in Tasks |-> NoResponse]
    /\ outcome = [t \in Tasks |-> NoOutcome]
    /\ scope = [t \in Tasks |-> "none"]
    /\ built = NoBuilt

\* task t starts another operation on the client: the invocation it made
\* before is over and its record is dropped
Forgotten(t) ==
    /\ call' = [call EXCEPT ![t] = NoCall]
    /\ served' = [served EXCEPT ![t] = NoResponse]
    /\ response' = [response EXCEPT ![t] = NoResponse]

\* HummingbotClient.init with the test of line 42 removed
InitSessionUnguarded ==
    /\ nextId < MaxSessions
    /\ nextId' = nextId + 1
    /\ session' = nextId + 1
    /\ slots' = [r \in RouterNames |-> Router(nextId + 1, BaseUrl)]
    /\ phase' = "open"

\* init() handing out the Session it had before instead of a new one
InitSessionReusing ==
    IF session = 0
    THEN /\ nextId < MaxSessions
         /\ nextId' = nextId + 1
         /\ session' = IF closed = {} THEN nextId + 1
                        ELSE CHOOSE s \in closed : TRUE
         /\ slots' = [r \in RouterNames |-> Router(session', BaseUrl)]
         /\ phase' = "open"
    ELSE UNCHANGED <<session, slots, nextId, phase>>

\* HummingbotClient.init, lines 42-56
InitSession ==
    IF session = 0
    THEN /\ nextId < MaxSessions
         /\ nextId' = nextId + 1
         /\ session' = nextId + 1
         /\ slots' = [r \in RouterNames |-> Router(nextId + 1, BaseUrl)]
         /\ phase' = "open"
    ELSE UNCHANGED <<session, slots, nextId, phase>>

\* HummingbotClient.init: no await inside, so it runs atomically
ClientInit(t) ==
    /\ pc[t] = "idle"
    /\ InitSession
    /\ outcome' = [outcome EXCEPT ![t] = NoOutcome]
    /\ Forgotten(t)
    /\ UNCHANGED <<closed, pc, held, scope, built>>

\* the assignments of close(), lines 62-72
ClearedSlotsKeepAccounts ==
    [r \in RouterNames |-> IF r = "accounts" THEN slots[r] ELSE NoRouter]

ClearedSlots == [r \in RouterNames |-> NoRouter]

\* `await self._session.close()` suspends the task unless the Session was
\* closed already
Suspends == session # 0 /\ session \notin closed

\* HummingbotClient.close up to `await self._session.close()`.  The Session
\* is closed synchronously; when the await does not suspend, close() runs
\* to its end.
CloseBegin(t) ==
    IF session = 0
    THEN UNCHANGED <<session, slots, closed, phase, pc>>
    ELSE IF session \in closed
    THEN /\ session' = 0
         /\ slots' = ClearedSlots
         /\ phase' = "closed"
         /\ UNCHANGED <<closed, pc>>
    ELSE /\ closed' = closed \cup {session}
         /\ pc' = [pc EXCEPT ![t] = "closing"]
         /\ UNCHANGED <<session, slots, phase>>

\* close() without the test of line 60: on a client that holds no Session
\* `None.close()` raises
ClientCloseUnguarded(t) ==
    /\ pc[t] = "idle"
    /\ outcome' = [outcome EXCEPT ![t] =
                      IF session = 0 THEN Raised("AttributeError", 0, None)
                      ELSE NoOutcome]
    /\ CloseBegin(t)
    /\ Forgotten(t)
    /\ UNCHANGED <<nextId, held, scope, built>>

\* the caller awaits client.close()
ClientClose(t) ==
    /\ pc[t] = "idle"
    /\ outcome' = [outcome EXCEPT ![t] = NoOutcome]
    /\ CloseBegin(t)
    /\ Forgotten(t)
    /\ UNCHANGED <<nextId, held, scope, built>>

\* __aexit__ returning a true value would suppress the exception
AExitSuppressesAlways == TRUE

\* __aexit__, lines 149-151: no return statement, the result is None and
\* the exception that left the block is re-raised
AExitSuppresses == FALSE

\* what the `async with` statement delivers to the caller when the block
\* was left with e (NoOutcome: the block completed normally)
Propagated(e) == IF AExitSuppresses THEN NoOutcome ELSE e

IsException(o) == o.kind \notin {"none", "value", "router"}

\* how the block ends: normally, or with the exception its last operation
\* raised, or with an exception of the caller's own code
BodyException(t, raising) ==
    IF ~raising THEN NoOutcome
    ELSE IF IsException(outcome[t]) THEN outcome[t]
    ELSE Raised("Exception", 0, None)

\* __aenter__, lines 144-147: `async with client` is entered
AEnter(t) ==
    /\ pc[t] = "idle"
    /\ scope[t] = "none"
    /\ InitSession
    /\ outcome' = [outcome EXCEPT ![t] = NoOutcome]
    /\ scope' = [scope EXCEPT ![t] = "body"]
    /\ Forgotten(t)
    /\ UNCHANGED <<closed, pc, held, built>>

\* __aexit__, lines 149-151: the block is left and close() is awaited;
\* while close() is suspended the exception of the block is pending
AExit(t, raising) ==
    /\ pc[t] = "idle"
    /\ scope[t] = "body"
    /\ CloseBegin(t)
    /\ IF Suspends
       THEN /\ scope' = [scope EXCEPT ![t] = "exit"]
            /\ outcome' = [outcome EXCEPT ![t] = BodyException(t, raising)]
       ELSE /\ scope' = [scope EXCEPT ![t] = "none"]
            /\ outcome' = [outcome EXCEPT ![t] =
                              Propagated(BodyException(t, raising))]
    /\ Forgotten(t)
    /\ UNCHANGED <<nextId, held, built>>

\* HummingbotClient.close after the await, lines 62-72; when close() was
\* awaited by __aexit__ the block has now been left
ClientCloseFinish(t) ==
    /\ pc[t] = "closing"
    /\ session' = 0
    /\ slots' = ClearedSlots
    /\ phase' = "closed"
    /\ pc' = [pc EXCEPT ![t] = "idle"]
    /\ IF scope[t] = "exit"
       THEN /\ scope' = [scope EXCEPT ![t] = "none"]
            /\ outcome' = [outcome EXCEPT ![t] = Propagated(outcome[t])]
       ELSE UNCHANGED <<scope, outcome>>
    /\ UNCHANGED <<nextId, closed, held, call, served, response, built>>

\* a router property with its check removed
AccessorUnchecked(slot) ==
    [raises |-> FALSE, router |-> slot]

\* a router property, e.g. HummingbotClient.accounts
Accessor(slot) ==
    IF slot = NoRouter
    THEN [raises |-> TRUE, router |-> NoRouter]
    ELSE [raises |-> FALSE, router |-> slot]

\* the caller reads client.<r>
GetRouter(t, r) ==
    /\ pc[t] = "idle"
    /\ LET a == Accessor(slots[r])
       IN  IF a.raises
           THEN /\ outcome' = [outcome EXCEPT ![t] =
                                  Raised("NotInitialized", 0, None)]
                /\ UNCHANGED held
           ELSE /\ outcome' = [outcome EXCEPT ![t] =
                                  [NoOutcome EXCEPT !.kind = "router"]]
                /\ held' = [held EXCEPT ![t] = a.router]
    /\ Forgotten(t)
    /\ UNCHANGED <<clientVars, pc, scope, built>>

(***************************************************************************)
(* Request gateway                                                         *)
(***************************************************************************)
\* _get/_post/_delete up to the first suspension: the request is handed to
\* self.session once; a closed Session raises before anything is sent
Invoke(t, m) ==
    /\ pc[t] = "idle"
    /\ held[t] # NoRouter
    /\ LET s == held[t].session
           others == {u \in Tasks \ {t} : pc[u] \in {"awaiting", "errbody"}}
       IN  /\ call' = [u \in Tasks |->
                         IF u = t
                         THEN [method |-> m, session |-> s, attempts |-> 1,
                               released |-> s \in closed,
                               concurrent |-> s \notin closed /\ others # {},
                               behind |-> Cardinality(others),
                               thrown |-> ""]
                         ELSE IF u \in others /\ s \notin closed
                         THEN [call[u] EXCEPT !.concurrent = TRUE]
                         ELSE call[u]]
           /\ IF s \in closed
              THEN /\ outcome' = [outcome EXCEPT ![t] =
                                     Raised("SessionClosed", 0, None)]
                   /\ UNCHANGED pc
              ELSE /\ outcome' = [outcome EXCEPT ![t] = NoOutcome]
                   /\ pc' = [pc EXCEPT ![t] = "awaiting"]
    /\ served' = [served EXCEPT ![t] = NoResponse]
    /\ response' = [response EXCEPT ![t] = NoResponse]
    /\ UNCHANGED <<clientVars, held, scope, built>>

\* the exception the transport throws into the suspended task, "" if the
\* remote answered
Thrown(r) == IF r.kind = "http" THEN "" ELSE r.kind

\* the response another call of the same Session received
BoundResponseShared(t, r) ==
    IF \E u \in Tasks \ {t} : response[u].kind # "none"
    THEN response[CHOOSE u \in Tasks \ {t} : response[u].kind # "none"]
    ELSE r

\* `async with self.session.get(...) as response`: the response of this
\* request is bound to a local of this invocation
BoundResponse(t, r) == r

\* _get and _delete behind a lock that serves the calls in the order of
\* their issue
GetRespondInOrder(t, R) ==
    /\ pc[t] = "awaiting"
    /\ call[t].method \in {"GET", "DELETE"}
    /\ call[t].behind = 0 \/ \A u \in Tasks \ {t} : pc[u] = "idle"
    /\ \E r \in R :
          /\ served' = [served EXCEPT ![t] = r]
          /\ call' = [call EXCEPT ![t].thrown = Thrown(r)]
          /\ response' = [response EXCEPT ![t] = r]
          /\ outcome' = [outcome EXCEPT ![t] =
                            IF r.kind = "http"
                            THEN RaiseForStatusThenJson(r)
                            ELSE TransportOutcome(r)]
    /\ pc' = [pc EXCEPT ![t] = "idle"]
    /\ UNCHANGED <<clientVars, held, scope, built>>

\* _get and _delete, lines 13-15 and 39-41: the round trip completes (the
\* remote answers or the transport fails; a request on a Session closed in
\* the meantime loses its connection), then raise_for_status and json()
GetRespond(t, R) ==
    /\ pc[t] = "awaiting"
    /\ call[t].method \in {"GET", "DELETE"}
    /\ \E r \in R :
          /\ call[t].session \in closed => r.kind = "ClientConnectionError"
          /\ served' = [served EXCEPT ![t] = r]
          /\ call' = [call EXCEPT ![t].thrown = Thrown(r)]
          /\ LET resp == BoundResponse(t, r)
             IN  /\ response' = [response EXCEPT ![t] = resp]
                 /\ outcome' = [outcome EXCEPT ![t] =
                                   IF resp.kind = "http"
                                   THEN RaiseForStatusThenJson(resp)
                                   ELSE TransportOutcome(resp)]
    /\ pc' = [pc EXCEPT ![t] = "idle"]
    /\ UNCHANGED <<clientVars, held, scope, built>>

\* _post, lines 20-21 and 33-34: the round trip completes; `if not
\* response.ok` enters the try block and suspends in
\* `await response.json()`
PostRespond(t, R) ==
    /\ pc[t] = "awaiting"
    /\ call[t].method = "POST"
    /\ \E r \in R :
          /\ call[t].session \in closed => r.kind = "ClientConnectionError"
          /\ served' = [served EXCEPT ![t] = r]
          /\ call' = [call EXCEPT ![t].thrown = Thrown(r)]
          /\ LET resp == BoundResponse(t, r)
             IN  /\ response' = [response EXCEPT ![t] = resp]
                 /\ IF resp.kind # "http"
                    THEN /\ outcome' = [outcome EXCEPT ![t] = TransportOutcome(resp)]
                         /\ pc' = [pc EXCEPT ![t] = "idle"]
                    ELSE IF ~Ok(resp)
                    THEN /\ pc' = [pc EXCEPT ![t] = "errbody"]
                         /\ UNCHANGED outcome
                    ELSE /\ outcome' = [outcome EXCEPT ![t] =
                                           RaiseForStatusThenJson(resp)]
                         /\ pc' = [pc EXCEPT ![t] = "idle"]
    /\ UNCHANGED <<clientVars, held, scope, built>>

\* _post retrying the request once when the response is an error
PostErrBodyRetry(t) ==
    /\ pc[t] = "errbody"
    /\ IF call[t].attempts < 2 /\ call[t].session \notin closed
       THEN /\ call' = [call EXCEPT ![t].attempts = @ + 1]
            /\ pc' = [pc EXCEPT ![t] = "awaiting"]
            /\ UNCHANGED outcome
       ELSE /\ outcome' = [outcome EXCEPT ![t] = PostErrorOutcome(response[t])]
            /\ pc' = [pc EXCEPT ![t] = "idle"]
            /\ UNCHANGED call
    /\ UNCHANGED <<clientVars, held, served, response, scope, built>>

\* _post dropping the Session and the routers when the response is an error
PostErrBodyInvalidating(t) ==
    /\ pc[t] = "errbody"
    /\ outcome' = [outcome EXCEPT ![t] = PostErrorOutcome(response[t])]
    /\ pc' = [pc EXCEPT ![t] = "idle"]
    /\ session' = 0
    /\ slots' = ClearedSlots
    /\ UNCHANGED <<nextId, closed, phase, held, call, served, response, scope,
                   built>>

\* _post, lines 22-33: the error body has been read
PostErrBody(t) ==
    /\ pc[t] = "errbody"
    /\ outcome' = [outcome EXCEPT ![t] = PostErrorOutcome(response[t])]
    /\ pc' = [pc EXCEPT ![t] = "idle"]
    /\ UNCHANGED <<clientVars, held, call, served, response, scope, built>>

\* _post, line 23: the connection is lost or the Session's timeout fires
\* while the body of the error response is read
PostErrBodyLost(t, f) ==
    /\ pc[t] = "errbody"
    /\ call' = [call EXCEPT ![t].thrown = f]
    /\ outcome' = [outcome EXCEPT ![t] = PostThrownOutcome(response[t], f)]
    /\ pc' = [pc EXCEPT ![t] = "idle"]
    /\ UNCHANGED <<clientVars, held, served, response, scope, built>>

Cancelled == Raised("CancelledError", 0, None)

\* the task is cancelled while it is suspended: CancelledError is thrown
\* into the coroutine at its await
Cancel(t) ==
    /\ pc[t] # "idle"
    /\ pc' = [pc EXCEPT ![t] = "idle"]
    /\ CASE pc[t] = "awaiting" ->
              /\ outcome' = [outcome EXCEPT ![t] = Cancelled]
              /\ call' = [call EXCEPT ![t].thrown = "CancelledError"]
         [] pc[t] = "errbody" ->
              /\ outcome' = [outcome EXCEPT ![t] =
                                PostThrownOutcome(response[t],
                                                  "CancelledError")]
              /\ call' = [call EXCEPT ![t].thrown = "CancelledError"]
         [] pc[t] = "closing" ->
              /\ outcome' = [outcome EXCEPT ![t] = Cancelled]
              /\ UNCHANGED call
    /\ scope' = [scope EXCEPT ![t] = IF @ = "exit" THEN "none" ELSE @]
    /\ UNCHANGED <<clientVars, held, served, response, built>>

(***************************************************************************)
(* Request construction by the router methods.  Python values are tagged   *)
(* tuples: <<"int", "0">>, <<"str", "">>, <<"list">>, <<"Decimal", "0.5">>. *)
(***************************************************************************)
PyInt(n) == <<"int", n>>
Text(x) == <<"str", x>>
Bool(b) == <<"bool", b>>
Decimal(x) == <<"Decimal", x>>
EmptyList == <<"list">>
List1(x) == <<"list", x>>
Mapping1(k, v) == <<"dict", k, v>>

\* bool(v): what `if v:` tests
Truthy(v) ==
    v \notin {None, PyInt("0"), Text(""), Bool("False"), Decimal("0"),
              EmptyList, <<"dict">>}

\* str(v) of a Decimal or bool
PyStr(v) == Text(v[2])

\* one falsy and one truthy value of each argument type
Samples(type) ==
    CASE type = "int" -> {PyInt("0"), PyInt("1")}
      [] type = "str" -> {Text(""), Text("x")}
      [] type = "bool" -> {Bool("False"), Bool("True")}
      [] type = "list" -> {EmptyList, List1("a")}
      [] type = "Decimal" -> {Decimal("0"), Decimal("0.5")}
      [] type = "dict" -> {<<"dict">>, Mapping1("strategyType", "0")}

Optional(type) == {None} \cup Samples(type)

\* every key copied, whatever its value
WhereAny(args, keys) == [k \in keys |-> args[k]]

\* `if x is not None: d["x"] = x` for each x of keys
WhereNotNone(args, keys) ==
    [k \in {j \in keys : args[j] # None} |-> args[k]]

\* `if x: d["x"] = x` for each x of keys
WhereTruthy(args, keys) ==
    [k \in {j \in keys : Truthy(args[j])} |-> args[k]]

\* `params or None`, `params if params else None`
OrNone(d) == IF DOMAIN d = {} THEN NoDict ELSE Dict(d)

Request(method, verb, path, args, params, json) ==
    [method |-> method, verb |-> verb, path |-> path, args |-> args,
     params |-> params, json |-> json, url |-> << >>]

(***************************************************************************)
(* URLs.  A string whose characters matter is a sequence of tokens, "/"     *)
(* being the token of the slash: "http://localhost:8000/" is                *)
(* <<"http://localhost:8000", "/">>.                                        *)
(***************************************************************************)
MaxSlashes == 2

RECURSIVE Rstrip(_)
\* s.rstrip('/')
Rstrip(s) ==
    IF s = << >> \/ s[Len(s)] # "/" THEN s
    ELSE Rstrip(SubSeq(s, 1, Len(s) - 1))

RECURSIVE Lstrip(_)
\* s.lstrip('/')
Lstrip(s) ==
    IF s = << >> \/ s[1] # "/" THEN s ELSE Lstrip(Tail(s))

\* HummingbotClient.__init__: self.base_url
ClientBaseUrl(base_url) == Rstrip(base_url)

\* BaseRouter.__init__: self.base_url, from the client's
RouterBaseUrl(base_url) == Rstrip(base_url)

\* the join of _get, _post and _delete without the lstrip
JoinUrlRaw(base_url, path) == base_url \o <<"/">> \o path

\* f"{self.base_url}/{path.lstrip('/')}"
JoinUrl(base_url, path) == base_url \o <<"/">> \o Lstrip(path)

\* the URL requested by a router of a client constructed with base_url
Url(base_url, path) ==
    JoinUrl(RouterBaseUrl(ClientBaseUrl(base_url)), path)

RECURSIVE Slashes(_)
Slashes(n) == IF n = 0 THEN << >> ELSE <<"/">> \o Slashes(n - 1)

\* base URLs without trailing slash, relative paths without leading slash
BaseCores == {<<"http://localhost:8000">>, <<"http://host", "/", "api">>}
PathRests == {<<"docker", "/", "running">>, <<"accounts", "/">>,
              <<"trading", "/", "orders">>}

BaseUrls == {core \o Slashes(k) : core \in BaseCores, k \in 0..MaxSlashes}
Paths == {Slashes(j) \o rest : rest \in PathRests, j \in 0..MaxSlashes}

GatewayVerbs == [_get |-> "GET", _post |-> "POST", _delete |-> "DELETE"]

\* _get, _post or _delete of a router, up to the URL it requests
Gateway(method, base_url, path) ==
    [Request(method, GatewayVerbs[method], "", 
             [base_url |-> base_url, path |-> path], NoDict, NoDict)
       EXCEPT !.url = Url(base_url, path)]

\* AccountsRouter.get_portfolio_history
PortfolioHistoryTypes ==
    [start_date |-> "str", end_date |-> "str", page |-> "int",
     page_size |-> "int"]

GetPortfolioHistory(args) ==
    Request("get_portfolio_history", "GET", "/accounts/portfolio/history",
            args, OrNone(WhereTruthy(args, DOMAIN PortfolioHistoryTypes)),
            NoDict)

\* ExecutorsRouter.search_executors
SearchExecutorsTypes ==
    [executor_ids |-> "list", controller_id |-> "str",
     executor_types |-> "list", statuses |-> "list", is_active |-> "bool",
     is_archived |-> "bool", trading_pair |-> "str",
     connector_name |-> "str", account_name |-> "str", side |-> "str",
     start_time_from |-> "int", start_time_to |-> "int",
     end_time_from |-> "int", end_time_to |-> "int"]

SearchExecutors(args) ==
    Request("search_executors", "POST", "/executors/search", args, NoDict,
            Dict(WhereNotNone(args, DOMAIN SearchExecutorsTypes)))

\* PortfolioRouter.get_state
GetStateTypes == [account_names |-> "list"]

GetState(args) ==
    Request("get_state", "GET", "/portfolio/state", args,
            Dict(WhereTruthy(args, DOMAIN GetStateTypes)), NoDict)

\* GatewayCLMMRouter.open_position
OpenPositionTypes ==
    [base_token_amount |-> "Decimal", quote_token_amount |-> "Decimal",
     slippage_pct |-> "Decimal", wallet_address |-> "str",
     extra_params |-> "dict"]

OpenPositionRequired ==
    [connector |-> Text("meteora"), network |-> Text("solana-mainnet-beta"),
     pool_address |-> Text("pool"), lower_price |-> Decimal("150"),
     upper_price |-> Decimal("250")]

OpenPosition(args) ==
    LET fixed == [connector |-> args.connector, network |-> args.network,
                  pool_address |-> args.pool_address,
                  lower_price |-> PyStr(args.lower_price),
                  upper_price |-> PyStr(args.upper_price),
                  slippage_pct |-> IF Truthy(args.slippage_pct)
                                   THEN PyStr(args.slippage_pct)
                                   ELSE Text("1.0")]
        amounts == WhereNotNone(args, {"base_token_amount",
                                        "quote_token_amount"})
        rest == WhereTruthy(args, {"wallet_address", "extra_params"})
    IN  Request("open_position", "POST", "/gateway/clmm/open", args, NoDict,
                Dict(fixed @@ [k \in DOMAIN amounts |-> PyStr(amounts[k])]
                           @@ rest))

\* TradingRouter.get_orders
GetOrdersTypes ==
    [start_time |-> "int", end_time |-> "int", page |-> "int",
     page_size |-> "int"]

GetOrders(args) ==
    Request("get_orders", "GET", "/trading/orders", args,
            OrNone(WhereTruthy(args, DOMAIN GetOrdersTypes)), NoDict)

\* DockerRouter.remove_container; force defaults to False, and the path is
\* the one formatted for the container name "bot"
RemoveContainerTypes == [force |-> "bool"]

RemoveContainer(args) ==
    Request("remove_container", "DELETE", "/docker/container/bot", args,
            IF Truthy(args.force) THEN Dict([force |-> args.force])
            ELSE NoDict,
            NoDict)

\* str.lower() left out
LowerUnchanged(v) == v

\* v.lower() of a str; every other text of the model is lowercase already
Lower(v) ==
    CASE v = Text("True") -> Text("true")
      [] v = Text("False") -> Text("false")
      [] OTHER -> v

\* the value of the decimal numerals the model uses
Numeral ==
    ("0" :> 0) @@ ("1" :> 1) @@ ("50" :> 50) @@ ("100" :> 100)
    @@ ("500" :> 500)

\* min(a, b) of two ints
Min(a, b) == IF Numeral[a[2]] <= Numeral[b[2]] THEN a ELSE b

\* ExecutorsRouter.stop_executor; keep_position defaults to False, the path
\* is the one formatted for the executor id "exec_123", and json={} is sent
StopExecutor(args) ==
    Request("stop_executor", "POST", "/executors/exec_123/stop", args,
            Dict([keep_position |-> Lower(PyStr(args.keep_position))]),
            Dict(EmptyDict))

\* GatewayCLMMRouter.get_pools; page defaults to 0, limit to 50, sort_key to
\* "volume", order_by to "desc" and include_unknown to True
GetPoolsTypes ==
    [search_term |-> "str", sort_key |-> "str", order_by |-> "str"]

GetPools(args) ==
    Request("get_pools", "GET", "/gateway/clmm/pools", args,
            Dict([connector |-> args.connector, page |-> args.page,
                  limit |-> Min(args.limit, PyInt("100")),
                  include_unknown |-> Lower(PyStr(args.include_unknown))]
                 @@ WhereTruthy(args, DOMAIN GetPoolsTypes)),
            NoDict)

\* the optional arguments of each method, with their types
OptionalTypes(method) ==
    CASE method = "get_portfolio_history" -> PortfolioHistoryTypes
      [] method = "get_orders" -> GetOrdersTypes
      [] method = "remove_container" -> RemoveContainerTypes
      [] method = "get_pools" -> GetPoolsTypes
      [] method = "search_executors" -> SearchExecutorsTypes
      [] method = "get_state" -> GetStateTypes
      [] method = "open_position" -> OpenPositionTypes
      [] OTHER -> EmptyDict

\* every way to give each argument None, a falsy or a truthy value
Arguments(types) ==
    {a \in [DOMAIN types -> UNION {Optional(types[k]) : k \in DOMAIN types}] :
        \A k \in DOMAIN types : a[k] \in Optional(types[k])}

\* the same with at most n arguments supplied
SparseArguments(types, n) ==
    UNION {
      {[k \in DOMAIN types |-> IF k \in S THEN f[k] ELSE None] :
          f \in {g \in [S -> UNION {Samples(types[k]) : k \in S}] :
                    \A k \in S : g[k] \in Samples(types[k])}} :
      S \in {T \in SUBSET DOMAIN types : Cardinality(T) <= n}}

CallGetPortfolioHistory ==
    /\ built = NoBuilt
    /\ \E a \in Arguments(PortfolioHistoryTypes) :
          built' = GetPortfolioHistory(a)
    /\ UNCHANGED <<clientVars, taskVars>>

CallSearchExecutors ==
    /\ built = NoBuilt
    /\ \E a \in SparseArguments(SearchExecutorsTypes, MaxSupplied) :
          built' = SearchExecutors(a)
    /\ UNCHANGED <<clientVars, taskVars>>

CallGetState ==
    /\ built = NoBuilt
    /\ \E a \in Arguments(GetStateTypes) : built' = GetState(a)
    /\ UNCHANGED <<clientVars, taskVars>>

CallOpenPosition ==
    /\ built = NoBuilt
    /\ \E a \in Arguments(OpenPositionTypes) :
          built' = OpenPosition(OpenPositionRequired @@ a)
    /\ UNCHANGED <<clientVars, taskVars>>

\* the names an account can be given: strings of up to MaxNameLen tokens,
\* among them the characters that delimit the parts of a URL
MaxNameLen == 3
NameTokens == {"demo", "&", "=", "#"}

AccountNames ==
    UNION {[1..n -> NameTokens] : n \in 0..MaxNameLen}

\* the base URL the client of the model was constructed with
BaseUrlTokens == <<"http://localhost:8000">>

\* AccountsRouter.add_account and delete_account: the name is formatted
\* into the path handed to _post, which passes no params
AccountRequest(method, endpoint, account_name) ==
    [Request(method, "POST", "", [account_name |-> account_name], NoDict,
             NoDict)
       EXCEPT !.url = Url(BaseUrlTokens,
                          <<"/", "accounts", "/", endpoint, "?",
                            "account_name", "=">> \o account_name)]

AddAccount(account_name) ==
    AccountRequest("add_account", "add-account", account_name)

DeleteAccount(account_name) ==
    AccountRequest("delete_account", "delete-account", account_name)

CallAddAccount ==
    /\ built = NoBuilt
    /\ \E account_name \in AccountNames : built' = AddAccount(account_name)
    /\ UNCHANGED <<clientVars, taskVars>>

CallDeleteAccount ==
    /\ built = NoBuilt
    /\ \E account_name \in AccountNames :
          built' = DeleteAccount(account_name)
    /\ UNCHANGED <<clientVars, taskVars>>

\* How the URL string handed to session.post is read (yarl.URL, RFC 3986):
\* the fragment starts at the first "#", the query at the first "?", query
\* parameters are separated by "&" and a key ends at the first "=".
IndexOf(s, tok) ==
    IF \E i \in 1..Len(s) : s[i] = tok
    THEN CHOOSE i \in 1..Len(s) :
            s[i] = tok /\ \A j \in 1..(i - 1) : s[j] # tok
    ELSE 0

BeforeFirst(s, tok) ==
    IF IndexOf(s, tok) = 0 THEN s ELSE SubSeq(s, 1, IndexOf(s, tok) - 1)

AfterFirst(s, tok) ==
    IF IndexOf(s, tok) = 0 THEN << >>
    ELSE SubSeq(s, IndexOf(s, tok) + 1, Len(s))

RECURSIVE Split(_, _)
Split(s, tok) ==
    IF IndexOf(s, tok) = 0 THEN <<s>>
    ELSE <<BeforeFirst(s, tok)>> \o Split(AfterFirst(s, tok), tok)

UrlPath(url) == BeforeFirst(BeforeFirst(url, "#"), "?")

UrlQueryString(url) == AfterFirst(BeforeFirst(url, "#"), "?")

NonBlank(piece) == piece # << >>

\* the parameters of the query, in order; blank values are kept
UrlQuery(url) ==
    LET pieces == SelectSeq(Split(UrlQueryString(url), "&"), NonBlank)
    IN  [i \in 1..Len(pieces) |->
            [key |-> BeforeFirst(pieces[i], "="),
             value |-> AfterFirst(pieces[i], "=")]]

CallStopExecutor ==
    /\ built = NoBuilt
    /\ \E keep_position \in Samples("bool") :
          built' = StopExecutor([executor_id |-> Text("exec_123"),
                                 keep_position |-> keep_position])
    /\ UNCHANGED <<clientVars, taskVars>>

CallGetPools ==
    /\ built = NoBuilt
    /\ \E page \in Samples("int"), limit \in {PyInt("50"), PyInt("500")},
          include_unknown \in Samples("bool"),
          a \in Arguments(GetPoolsTypes) :
          built' = GetPools([connector |-> Text("meteora"), page |-> page,
                             limit |-> limit,
                             include_unknown |-> include_unknown] @@ a)
    /\ UNCHANGED <<clientVars, taskVars>>

\* PerformanceRouter.calculate_performance_results
CalculatePerformanceResults(method, args, executor_data) ==
    Request(method, "POST", "/performance/results", args, NoDict,
            Dict(executor_data))

\* PerformanceRouter.analyze_bot_performance: in the dict display
\* {"bot_name": bot_name, **executor_data} a key of executor_data replaces
\* the one written before it
AnalyzeBotPerformance(args) ==
    CalculatePerformanceResults(
        "analyze_bot_performance", args,
        args.executor_data @@ [bot_name |-> args.bot_name])

\* executor data with and without a bot_name key of its own
ExecutorData ==
    UNION {
      {[k \in S |-> f[k]] :
          f \in [bot_name : {Text("bot"), Text("other")},
                 executors : Samples("list"),
                 controller_id : Samples("str")]} :
      S \in SUBSET {"bot_name", "executors", "controller_id"}}

CallAnalyzeBotPerformance ==
    /\ built = NoBuilt
    /\ \E bot_name \in {Text("bot"), Text("")},
          executor_data \in ExecutorData :
          built' = AnalyzeBotPerformance([bot_name |-> bot_name,
                                          executor_data |-> executor_data])
    /\ UNCHANGED <<clientVars, taskVars>>

CallGateway ==
    /\ built = NoBuilt
    /\ \E method \in DOMAIN GatewayVerbs, base_url \in BaseUrls,
          path \in Paths :
          built' = Gateway(method, base_url, path)
    /\ UNCHANGED <<clientVars, taskVars>>

CallGetOrders ==
    /\ built = NoBuilt
    /\ \E a \in Arguments(GetOrdersTypes) : built' = GetOrders(a)
    /\ UNCHANGED <<clientVars, taskVars>>

CallRemoveContainer ==
    /\ built = NoBuilt
    /\ \E force \in Samples("bool") :
          built' = RemoveContainer([container_name |-> Text("bot"),
                                    force |-> force])
    /\ UNCHANGED <<clientVars, taskVars>>

Next ==
    \/ \E t \in Tasks : ClientInit(t)
    \/ \E t \in Tasks : ClientClose(t)
    \/ \E t \in Tasks : ClientCloseFinish(t)
    \/ \E t \in Tasks, r \in RouterNames : GetRouter(t, r)
    \/ \E t \in Tasks, m \in Methods : Invoke(t, m)
    \/ \E t \in Tasks : GetRespond(t, BriefResponses)
    \/ \E t \in Tasks : PostRespond(t, BriefResponses)
    \/ \E t \in Tasks : PostErrBody(t)
    \/ \E t \in Tasks, f \in TransportKinds : PostErrBodyLost(t, f)
    \/ \E t \in Tasks : Cancel(t)

Spec == Init /\ [][Next]_vars

\* the client used through `async with` as well as through init()/close(),
\* the blocks making GET calls
NextScope ==
    \/ \E t \in Tasks : AEnter(t)
    \/ \E t \in Tasks, raising \in BOOLEAN : AExit(t, raising)
    \/ \E t \in Tasks : ClientInit(t)
    \/ \E t \in Tasks : ClientClose(t)
    \/ \E t \in Tasks : ClientCloseFinish(t)
    \/ \E t \in Tasks, r \in RouterNames : GetRouter(t, r)
    \/ \E t \in Tasks : Invoke(t, "GET")
    \/ \E t \in Tasks : GetRespond(t, BriefResponses)
    \/ \E t \in Tasks : Cancel(t)

SpecScope == Init /\ [][NextScope]_vars

\* one task using the client sequentially: every call is awaited to its
\* end before the next one is made, and the task is not cancelled
Caller == "t1"

NextSequential ==
    \/ ClientInit(Caller)
    \/ ClientClose(Caller)
    \/ ClientCloseFinish(Caller)
    \/ \E r \in RouterNames : GetRouter(Caller, r)
    \/ \E m \in Methods : Invoke(Caller, m)
    \/ GetRespond(Caller, AllResponses)
    \/ PostRespond(Caller, AllResponses)
    \/ PostErrBody(Caller)

SpecSequential == Init /\ [][NextSequential]_vars

\* the gateway on an initialised client: every task holds client.accounts
InitGateway ==
    /\ session = 1
    /\ slots = [r \in RouterNames |-> Router(1, BaseUrl)]
    /\ nextId = 1
    /\ closed = {}
    /\ phase = "open"
    /\ pc = [t \in Tasks |-> "idle"]
    /\ held = [t \in Tasks |-> Router(1, BaseUrl)]
    /\ call = [t \in Tasks |-> NoCall]
    /\ served = [t \in Tasks |-> NoResponse]
    /\ response = [t \in Tasks |-> NoResponse]
    /\ outcome = [t \in Tasks |-> NoOutcome]
    /\ scope = [t \in Tasks |-> "none"]
    /\ built = NoBuilt

NextGateway ==
    \/ \E t \in Tasks, m \in Methods : Invoke(t, m)
    \/ \E t \in Tasks : GetRespond(t, AllResponses)
    \/ \E t \in Tasks : PostRespond(t, AllResponses)
    \/ \E t \in Tasks : PostErrBody(t)
    \/ \E t \in Tasks, f \in TransportKinds : PostErrBodyLost(t, f)
    \/ \E t \in Tasks : Cancel(t)

SpecGateway == InitGateway /\ [][NextGateway]_vars

\* the descriptor is handed to _get/_post/_delete and not kept
Transmit ==
    /\ built # NoBuilt
    /\ built' = NoBuilt
    /\ UNCHANGED <<clientVars, taskVars>>

\* the router methods called with every combination of arguments
NextBuild ==
    \/ Transmit
    \/ CallGetPortfolioHistory
    \/ CallSearchExecutors
    \/ CallGetState
    \/ CallOpenPosition
    \/ CallGetOrders
    \/ CallRemoveContainer
    \/ CallGateway
    \/ CallAddAccount
    \/ CallDeleteAccount
    \/ CallStopExecutor
    \/ CallGetPools
    \/ CallAnalyzeBotPerformance

SpecBuild == Init /\ [][NextBuild]_vars

TypeOK ==
    /\ session \in 0..MaxSessions
    /\ closed \subseteq 1..MaxSessions
    /\ phase \in {"new", "open", "closed"}
    /\ \A t \in Tasks : pc[t] \in {"idle", "closing", "awaiting", "errbody"}
    /\ \A t \in Tasks : scope[t] \in {"none", "body", "exit"}
    /\ \A t \in Tasks : scope[t] = "exit" => pc[t] = "closing"

(***************************************************************************)
(* Properties                                                              *)
(***************************************************************************)
\* a gateway invocation of task t has returned or raised
Completed(t) == pc[t] = "idle" /\ call[t].attempts > 0 /\ served[t] # NoResponse

GatewayKinds ==
    {"value", "JSONDecodeError", "SessionClosed"} \cup RemoteStatusKinds
    \cup TransportKinds

Success(r) == r.kind = "http" /\ r.status \in 200..299

NonSuccess(r) == r.kind = "http" /\ r.status \notin 200..299

\* C1: as long as init() has never run, every read of a router accessor has
\* raised the not-initialized error: no task got a router or None back, and
\* no gateway invocation or request exists.
C1_AccessorBeforeInitRaises ==
    phase = "new" =>
        \A t \in Tasks :
            /\ outcome[t].kind \in {"none", "NotInitialized"}
            /\ held[t] = NoRouter
            /\ pc[t] = "idle"
            /\ call[t] = NoCall

C1_Witness ==
    phase = "new" /\ \E t \in Tasks : outcome[t].kind = "NotInitialized"

\* C2: once close() has completed on an initialised client, every read of a
\* router accessor raises the not-initialized error and starts no request.
C2_AccessorAfterCloseRaises ==
    [][\A t \in Tasks :
          (phase = "closed" /\ \E r \in RouterNames : GetRouter(t, r))
          => /\ outcome'[t].kind = "NotInitialized"
             /\ pc' = pc
             /\ call'[t].attempts = 0
             /\ \A u \in Tasks \ {t} : call'[u] = call[u]
             /\ held' = held]_vars

C2_Witness ==
    /\ phase = "closed"
    /\ nextId > 0
    /\ \E t \in Tasks : outcome[t].kind = "NotInitialized"

\* C3: every gateway invocation made through a router whose Session has
\* been released ends with the not-initialized error.
C3_UseAfterReleaseNotInitialized ==
    \A t \in Tasks :
        (call[t].released /\ outcome[t].kind \in GatewayKinds)
        => outcome[t].kind = "NotInitialized"

\* C4: a response whose status is outside 200..299 makes the invocation fail
\* with the remote-status error carrying that status.
C4_NonSuccessStatusRaises ==
    \A t \in Tasks :
        (Completed(t) /\ NonSuccess(served[t]))
        => /\ outcome[t].kind \in RemoteStatusKinds
           /\ outcome[t].status = served[t].status

\* C5: the error raised for a non-2xx response carries the JSON body of the
\* response as its detail when the body parses, and an empty detail when
\* it does not.
C5_ErrorCarriesJsonBody ==
    \A t \in Tasks :
        (Completed(t) /\ NonSuccess(served[t])
            /\ outcome[t].kind = "ClientResponseError")
        => outcome[t].message = IF Parseable(served[t].body)
                                THEN Loads(served[t].body)
                                ELSE None

\* C6: on a 2xx response the value returned is the parsed JSON body of that
\* response, unchanged; a JSON body that parses is always returned (a blank
\* body has no JSON value and gives None).
C6_SuccessReturnsParsedBody ==
    \A t \in Tasks :
        (Completed(t) /\ Success(served[t]))
        => LET b == served[t].body
           IN  /\ (outcome[t].kind = "value" /\ Parseable(b))
                    => outcome[t].value = Loads(b)
               /\ (outcome[t].kind = "value" /\ ~Parseable(b))
                    => b = "" /\ outcome[t].value = None
               /\ (served[t].ctype = "application/json" /\ Parseable(b))
                    => outcome[t].kind = "value"

C6_Witness ==
    \E t \in Tasks :
        /\ Completed(t)
        /\ call[t].method = "DELETE"
        /\ served[t].status = 299
        /\ outcome[t].kind = "value"
        /\ outcome[t].value = <<"object", "detail", "already exists">>

\* C7: an invocation hands exactly one request to the Session, whatever its
\* outcome; it never sends a second one.
C7_SingleRequestPerInvocation ==
    \A t \in Tasks :
        /\ call[t].attempts <= 1
        /\ (pc[t] # "idle" \/ outcome[t].kind \in GatewayKinds)
              => call[t].attempts = 1

C7_Witness ==
    /\ \E t \in Tasks : Completed(t) /\ call[t].method = "POST"
                        /\ served[t].status = 500 /\ call[t].attempts = 1
    /\ \E t \in Tasks : Completed(t) /\ outcome[t].kind = "TimeoutError"
                        /\ call[t].attempts = 1

\* an omitted optional argument of the constructed request
Omitted(k) ==
    /\ k \in DOMAIN OptionalTypes(built.method)
    /\ built.args[k] = None

Absent(k) == k \notin DOMAIN built.params.d /\ k \notin DOMAIN built.json.d

\* C8 as stated: an optional argument left as None contributes no key to
\* the query parameters or the JSON body.
C8_OmittedContributesNoKey ==
    \A k \in DOMAIN built.args : Omitted(k) => Absent(k)

\* C8: an optional argument left as None contributes no key to the query
\* parameters or the JSON body and is never sent as null or empty; the one
\* exception is slippage_pct of open_position, sent as the default "1.0".
C8_OmittedAbsentOrDefault ==
    \A k \in DOMAIN built.args :
        Omitted(k) =>
            IF built.method = "open_position" /\ k = "slippage_pct"
            THEN /\ k \notin DOMAIN built.params.d
                 /\ built.json.d[k] = Text("1.0")
            ELSE Absent(k)

C8_Witness ==
    /\ built.method = "search_executors"
    /\ built.args["is_active"] = Bool("False")
    /\ built.args["controller_id"] = None
    /\ DOMAIN built.json.d = {"is_active"}

\* C9: a call that overlapped with another call on the same Session
\* completes with the outcome of its own response: its value, status or
\* transport failure is the one the remote produced for its own request.
C9_NoCrossTalk ==
    \A t \in Tasks :
        (Completed(t) /\ call[t].concurrent)
        => /\ response[t] = served[t]
           /\ outcome[t].kind = "value"
                => /\ served[t].kind = "http"
                   /\ outcome[t].value = IF served[t].body = "" THEN None
                                         ELSE Loads(served[t].body)
           /\ outcome[t].kind \in RemoteStatusKinds
                => outcome[t].status = served[t].status
           /\ outcome[t].kind \in TransportKinds
                => outcome[t].kind = served[t].kind

C9_Witness ==
    \E t, u \in Tasks :
        /\ t # u
        /\ Completed(t) /\ Completed(u)
        /\ call[t].concurrent /\ call[u].concurrent
        /\ outcome[t].kind = "value" /\ outcome[u].kind = "value"
        /\ outcome[t].value # outcome[u].value

\* C10: every outstanding request is on the Session the client currently
\* owns, and that Session has not been released.
C10_OutstandingOnCurrentSession ==
    \A t \in Tasks :
        pc[t] \in {"awaiting", "errbody"}
        => call[t].session = session /\ session \notin closed

\* C11: leaving an `async with client` block closes the Session the client
\* holds and, once __aexit__ has completed, leaves the Session slot and all
\* ten router slots empty, both when the block completed normally and when
\* it raised; an exception raised in the block is the one delivered to the
\* caller.
C11_ExitReleasesAndPropagates ==
    [][\A t \in Tasks :
          /\ \A raising \in BOOLEAN :
                AExit(t, raising)
                => /\ session # 0 => session \in closed'
                   /\ outcome'[t] = BodyException(t, raising)
                   /\ raising => IsException(outcome'[t])
                   /\ scope'[t] = "none"
                        => session' = 0 /\ \A r \in RouterNames :
                                              slots'[r] = NoRouter
          /\ (scope[t] = "exit" /\ ClientCloseFinish(t))
                => /\ scope'[t] = "none"
                   /\ session' = 0
                   /\ \A r \in RouterNames : slots'[r] = NoRouter
                   /\ outcome'[t] = outcome[t]]_vars

C11_Witness ==
    \E t \in Tasks :
        /\ scope[t] = "none" /\ pc[t] = "idle"
        /\ outcome[t].kind = "ClientResponseError"
        /\ call[t] = NoCall
        /\ phase = "closed" /\ session = 0 /\ closed # {}
        /\ \A r \in RouterNames : slots[r] = NoRouter

\* C12: a gateway call whose task was cancelled while it was suspended ends
\* with that cancellation: the CancelledError reaches the caller and is not
\* swallowed or replaced by another error.
C12_CancellationReachesCaller ==
    \A t \in Tasks :
        (pc[t] = "idle" /\ call[t].thrown = "CancelledError")
        => outcome[t].kind = "CancelledError"

\* C13: a connection failure or timeout during a gateway call reaches the
\* caller as that transport error, with no status and no payload; it is
\* never a remote-status error and never a returned value.
C13_TransportFailureIsTransportError ==
    \A t \in Tasks :
        (pc[t] = "idle" /\ call[t].thrown \in TransportKinds)
        => /\ outcome[t].kind = call[t].thrown
           /\ outcome[t].status = 0
           /\ outcome[t].message = None
           /\ outcome[t].value = None

\* C14: a call whose round trip exceeds the Session's total timeout fails
\* with the transport-timeout error.
C14_TimeoutFailsWithTimeoutError ==
    \A t \in Tasks :
        (pc[t] = "idle" /\ call[t].thrown = "TimeoutError")
        => outcome[t].kind = "TimeoutError"

FailureKinds == RemoteStatusKinds \cup TransportKinds

\* a step in which the gateway call of task t ends with a failure
FailsIn(t) ==
    /\ pc[t] \in {"awaiting", "errbody"}
    /\ pc'[t] = "idle"
    /\ outcome'[t].kind \in FailureKinds

\* C15: a gateway call that fails changes nothing in the client: the Session
\* slot, the set of closed Sessions, the ten router slots and the routers
\* callers hold are as before.  The next call of the same task hands one
\* fresh request to the Session, with no response retained, and the outcome
\* of every call on which nothing was thrown is the function of its own
\* response.
C15_FailureLeavesClientUnchanged ==
    /\ [][\A t \in Tasks :
             /\ FailsIn(t)
                  => /\ session' = session
                     /\ closed' = closed
                     /\ slots' = slots
                     /\ nextId' = nextId
                     /\ held' = held
             /\ \A m \in Methods :
                  (outcome[t].kind \in FailureKinds /\ Invoke(t, m))
                  => /\ call'[t].attempts = 1
                     /\ served'[t] = NoResponse
                     /\ response'[t] = NoResponse
                     /\ held[t].session \notin closed
                          => pc'[t] = "awaiting" /\ outcome'[t] = NoOutcome]_vars
    /\ [](\A t \in Tasks :
             (Completed(t) /\ call[t].thrown = "")
             => outcome[t] = RaiseForStatusThenJson(served[t]))

C15_Witness ==
    \E t \in Tasks :
        /\ Completed(t)
        /\ call[t].method = "POST"
        /\ outcome[t].kind = "ClientResponseError"
        /\ session # 0 /\ session \notin closed
        /\ held[t].session = session
        /\ \A r \in RouterNames : slots[r] = held[t]

\* the round trip of task t can complete now
CanComplete(t) ==
    ENABLED (GetRespond(t, AllResponses) \/ PostRespond(t, AllResponses))

\* C16: a call in flight never waits for another call: whatever other calls
\* are in flight and in whatever order they were issued, its round trip can
\* complete next, so two concurrent calls can complete in either order.
C16_NoOrderingBetweenCalls ==
    \A t \in Tasks : pc[t] = "awaiting" => CanComplete(t)

\* the call issued second has completed while the one issued first is
\* still in flight
C16_Witness ==
    \E t, u \in Tasks :
        /\ t # u
        /\ pc[t] = "awaiting" /\ call[t].behind = 0 /\ call[t].concurrent
        /\ Completed(u) /\ call[u].behind = 1 /\ outcome[u].kind = "value"

\* C17: from the moment the client's Session has been closed, every router
\* accessor raises the not-initialized error: no accessor returns a router
\* bound to a closed Session.
C17_NoRouterOfClosedSession ==
    \A r \in RouterNames :
        Accessor(slots[r]).raises \/ Accessor(slots[r]).router.session \notin closed

\* C18: every Session that init() has created and that is still open is the
\* one the client references: no open Session has been dropped.
C18_NoSessionLeaked ==
    \A s \in 1..nextId : s \notin closed => s = session

\* C19: init() (also through __aenter__) creates a Session and the routers
\* only when the client has none, and then exactly one; on a client that
\* has a Session it changes neither the Session nor any router slot.  As
\* long as no close() has closed a Session, at most one Session exists.
C19_InitIdempotent ==
    /\ [][\A t \in Tasks :
             (ClientInit(t) \/ AEnter(t))
             => IF session = 0
                THEN /\ nextId' = nextId + 1
                     /\ session' = nextId'
                     /\ \A r \in RouterNames : slots'[r].session = session'
                ELSE /\ session' = session
                     /\ slots' = slots
                     /\ nextId' = nextId]_vars
    /\ [](closed = {} => nextId <= 1)

C19_Witness ==
    /\ session = 1 /\ nextId = 1 /\ closed = {}
    /\ \A t \in Tasks : scope[t] = "body" /\ outcome[t].kind = "none"
                         /\ held[t] = NoRouter

\* C20: in every state another task can observe, the Session slot is empty
\* exactly when all ten router slots are empty, no state has only some of
\* the slots filled, and every filled slot holds a router bound to the
\* client's current Session and base URL.
C20_LifecycleAllOrNothing ==
    /\ session = 0 <=> \A r \in RouterNames : slots[r] = NoRouter
    /\ session # 0 =>
          \A r \in RouterNames :
              /\ slots[r] # NoRouter
              /\ slots[r].session = session
              /\ slots[r].base_url = BaseUrl

C20_Witness ==
    /\ session = 2 /\ closed = {1, 2}
    /\ \E t \in Tasks : pc[t] = "closing"
    /\ \A r \in RouterNames : slots[r].session = 2

\* C21: close() on a client that holds no Session (never initialised, or
\* closed before) changes nothing and raises nothing; under sequential
\* calls every close() that finds a Session finds it open and closes it, so
\* no Session is closed twice, and once close() has returned every Session
\* created so far is closed.
C21_CloseIdempotent ==
    /\ [][(ClientClose(Caller) /\ session = 0)
            => /\ UNCHANGED <<session, slots, nextId, closed, phase, pc, held>>
               /\ outcome'[Caller] = NoOutcome]_vars
    /\ [][(ClientClose(Caller) /\ session # 0)
            => /\ session \notin closed
               /\ closed' = closed \cup {session}]_vars
    /\ []((pc[Caller] = "idle" /\ session = 0) => closed = 1..nextId)

C21_Witness ==
    /\ phase = "closed" /\ session = 0 /\ closed = {1}
    /\ pc[Caller] = "idle"
    /\ outcome[Caller] = NoOutcome
    /\ held[Caller] # NoRouter

\* C22: init() on a client whose close() has completed creates a Session
\* that is new (different from every Session created before, and open) and
\* ten routers bound to it, after which no accessor raises; this holds in
\* every init/close cycle.
C22_ReinitCreatesFreshSession ==
    [][\A t \in Tasks :
          (ClientInit(t) /\ session = 0 /\ phase = "closed")
          => /\ session' # 0
             /\ session' \notin 1..nextId
             /\ session' \notin closed'
             /\ \A r \in RouterNames :
                   /\ slots'[r].session = session'
                   /\ slots'[r].base_url = BaseUrl
                   /\ ~Accessor(slots'[r]).raises]_vars

C22_Witness ==
    /\ session = 2 /\ closed = {1} /\ phase = "open"
    /\ \E t \in Tasks : /\ outcome[t].kind = "router"
                         /\ held[t].session = 2

\* a call of task t has ended with nothing thrown into it while it was
\* suspended
Answered(t) == Completed(t) /\ call[t].thrown = "" /\ served[t].kind = "http"

\* C23: for a non-2xx response, _post ends exactly as _get and _delete end
\* for the same response; whenever _post enters its error branch (the
\* response is not ok) the error that reaches the caller is the one of
\* raise_for_status() (status and reason phrase), never the error built
\* from the body, whether or not the body parses as JSON.
C23_PostWrapIsDead ==
    \A t \in Tasks :
        (Answered(t) /\ call[t].method = "POST" /\ NonSuccess(served[t]))
        => /\ \A u \in Tasks :
                 (Answered(u) /\ call[u].method \in {"GET", "DELETE"}
                    /\ served[u] = served[t])
                 => outcome[u] = outcome[t]
           /\ ~Ok(served[t])
                 => /\ outcome[t].kind = "ClientResponseError"
                    /\ outcome[t].status = served[t].status
                    /\ outcome[t].message = Reason(served[t].status)
                    /\ outcome[t].message # Str(Loads(served[t].body))

C23_Witness ==
    \E t, u \in Tasks :
        /\ Answered(t) /\ call[t].method = "POST"
        /\ Answered(u) /\ call[u].method = "GET"
        /\ served[t] = served[u]
        /\ served[t].status = 400 /\ Parseable(served[t].body)
        /\ served[t].ctype = "application/json"
        /\ outcome[t].kind = "ClientResponseError"

\* C24: a call fails with an error of the remote-status kind only when the
\* status of its response is outside 200..299.
C24_RemoteStatusOnlyOutside2xx ==
    \A t \in Tasks :
        (Completed(t) /\ outcome[t].kind \in RemoteStatusKinds)
        => NonSuccess(served[t])

\* an optional argument the caller supplied to the constructed request
Supplied(k) ==
    /\ k \in DOMAIN OptionalTypes(built.method)
    /\ built.args[k] # None

\* the request carries key k with the supplied value, a Decimal as its str
Copied(k) ==
    LET v == built.args[k]
        forms == IF v[1] = "Decimal" THEN {v, PyStr(v)} ELSE {v}
    IN  \/ k \in DOMAIN built.params.d /\ built.params.d[k] \in forms
        \/ k \in DOMAIN built.json.d /\ built.json.d[k] \in forms

\* C25 as stated: every optional argument the caller supplies with a value
\* other than None, 0, False and "" included, is copied into the query
\* parameters or the JSON body with the value supplied.
C25_SuppliedIsCopied ==
    \A k \in DOMAIN built.args : Supplied(k) => Copied(k)

\* C26: for every base URL, with or without trailing slashes, and every
\* path, with or without leading slashes, _get, _post and _delete request
\* the URL of the normalised pair, base and path joined by exactly one
\* slash.
C26_JoinedByOneSlash ==
    built.method \in DOMAIN GatewayVerbs =>
        \E core \in BaseCores, rest \in PathRests :
            /\ \E k \in 0..Len(built.args.base_url) :
                  built.args.base_url = core \o Slashes(k)
            /\ \E j \in 0..Len(built.args.path) :
                  built.args.path = Slashes(j) \o rest
            /\ built.url = core \o <<"/">> \o rest
            /\ built.url = Url(core, rest)
            /\ built.url = Url(core, <<"/">> \o rest)
            /\ built.url[Len(core)] # "/"
            /\ built.url[Len(core) + 2] # "/"

C26_Witness ==
    /\ built.method = "_post"
    /\ built.args.base_url = <<"http://localhost:8000", "/", "/">>
    /\ built.args.path = <<"/", "/", "accounts", "/">>
    /\ built.url = <<"http://localhost:8000", "/", "accounts", "/">>

\* C27 as stated: for every account name, add_account and delete_account
\* request /accounts/add-account resp. /accounts/delete-account with a query
\* of exactly one parameter, account_name, whose value is the given name.
C27_QueryIsExactlyTheName ==
    built.method \in {"add_account", "delete_account"} =>
        /\ UrlPath(built.url)
             = BaseUrlTokens \o <<"/", "accounts", "/">>
               \o <<IF built.method = "add_account" THEN "add-account"
                                                    ELSE "delete-account">>
        /\ UrlQuery(built.url)
             = <<[key |-> <<"account_name">>,
                  value |-> built.args.account_name]>>

\* the boolean argument arg is sent as query parameter arg, as the
\* lowercase string of its value
SentAsLowercaseString(arg) ==
    /\ built.params.sent
    /\ arg \in DOMAIN built.params.d
    /\ built.params.d[arg] \in {Text("true"), Text("false")}
    /\ built.params.d[arg] = Text("true") <=> built.args[arg] = Bool("True")
    /\ built.params.d[arg] # built.args[arg]

\* C28: keep_position of stop_executor and include_unknown of get_pools are
\* always sent as query parameters, as the lowercase string "true" or
\* "false", for both values of the argument, never as a native boolean and
\* never omitted.
C28_BooleanSentAsLowercaseString ==
    /\ built.method = "stop_executor" => SentAsLowercaseString("keep_position")
    /\ built.method = "get_pools" => SentAsLowercaseString("include_unknown")

C28_Witness ==
    /\ built.method = "stop_executor"
    /\ built.args.keep_position = Bool("False")
    /\ built.params.d = [keep_position |-> Text("false")]

\* C29 as stated: open_position sends slippage_pct as the string form of
\* the value the caller supplied whenever one is supplied and as the
\* default "1.0" only when none is; base_token_amount and
\* quote_token_amount are sent exactly when supplied.
C29_SlippageSentWhenSupplied ==
    built.method = "open_position" =>
        /\ built.json.d.slippage_pct
             = IF built.args.slippage_pct # None
               THEN PyStr(built.args.slippage_pct)
               ELSE Text("1.0")
        /\ \A k \in {"base_token_amount", "quote_token_amount"} :
              /\ k \in DOMAIN built.json.d <=> built.args[k] # None
              /\ k \in DOMAIN built.json.d
                    => built.json.d[k] = PyStr(built.args[k])

\* C30 as stated: analyze_bot_performance posts a body whose bot_name is
\* the bot_name argument for every executor_data, one with a bot_name key
\* of its own included, and which has every other key of executor_data with
\* its value.
C30_BotNameIsTheArgument ==
    built.method = "analyze_bot_performance" =>
        /\ built.json.sent
        /\ built.json.d.bot_name = built.args.bot_name
        /\ \A k \in DOMAIN built.args.executor_data \ {"bot_name"} :
              /\ k \in DOMAIN built.json.d
              /\ built.json.d[k] = built.args.executor_data[k]
====
